---- MODULE Spec2Model ----
(***************************************************************************)
(* A model of the two entity-component-system stores of the repository:    *)
(* class World (queries kept in a list, has / none / where) and class      *)
(* Sword (queries kept in the archetypes map, getEntitiesWithComponents).  *)
(* An entity is a JavaScript object: a finite map from the keys it owns to *)
(* their values.  The host holds NumObjs such objects and passes them to   *)
(* the operations of the store.                                            *)
(***************************************************************************)
EXTENDS Integers, Sequences, FiniteSets, TLC

\* ------------------------------------------------------------------ bounds
NumObjs == 2
MaxQueries == 2
MaxHooks == 2
MaxOps == 2
MaxIds == 2
MaxSystems == 2
MaxFresh == 2

\* World.entities may hold an object more than once (add twice): its length
\* is capped at the number of objects.
MaxEntities == NumObjs

Objs == 1 .. NumObjs

\* Component names the host uses, and the values it stores under each.
Names == {"x", "hp"}

ValuesOf(k) == IF k = "x" THEN {0} ELSE {0, 10}

\* Every object literal over the component names: a map from the keys that
\* are present to their values.
ObjectsOver(S) == { f \in [S -> {0, 10}] : \A k \in S : f[k] \in ValuesOf(k) }

ObjectLiterals == UNION { ObjectsOver(S) : S \in SUBSET Names }

\* The parameter lists the host passes to has and getEntitiesWithComponents,
\* and those it passes to none.
HasParams == {{"x", "hp"}}

NoneParams == {{"hp"}}

\* The conditions the host passes to where: e => e.hp <= 0.
Conditions == {"hpLE0"}

VARIABLES
    impl,             \* which class the host instantiated: "World" or "Sword"
    objs,             \* the objects the host holds: objs[o] is o's own keys and values
    entities,         \* World.entities: the list of stored objects
    queries,          \* World.queries: the list of registered queries
    onEntityAdded,    \* store-level hook list (World and Sword)
    onEntityRemoved,  \* store-level hook list (World and Sword)
    entityMap,        \* Sword.entities: Map from id to object
    archetypes,       \* Sword.archetypes: Map from archetype to query result, in insertion order
    entityIdCounter,  \* Sword.entityIdCounter
    systems,          \* the systems list (World.systems, Sword.systems)
    archetypeDefinitions, \* Sword.archetypeDefinitions: Map from name to components
    assigned,         \* the ids createEntity has assigned so far (history)
    ran,              \* the systems the last tick invoked, in order, each with its dt
    threw,            \* whether the last call ended by throwing
    fired,            \* the hook callbacks invoked by the last operation, in order
    lastOp            \* the call that has just returned: its method, its entity and the
                      \* number of keys of the entity it changed; or Idle

vars == <<impl, objs, entities, queries, onEntityAdded, onEntityRemoved,
          entityMap, archetypes, entityIdCounter, systems, archetypeDefinitions,
          assigned, ran, threw, fired, lastOp>>

\* A call that neither touches the systems list nor throws.
SystemsUnchanged == UNCHANGED <<systems, ran, threw>>

\* ---------------------------------------------------------- JS primitives

\* The value undefined, and NaN.
Undefined == "undefined"

NaN == -1

\* Array.prototype.indexOf, 1-based; 0 stands for JavaScript's -1.
indexOf(s, e) ==
    IF \E i \in 1 .. Len(s) : s[i] = e
    THEN CHOOSE i \in 1 .. Len(s) : s[i] = e /\ \A j \in 1 .. (i - 1) : s[j] # e
    ELSE 0

\* Array.prototype.splice(index, 1), 1-based.
splice(s, index) == [i \in 1 .. (Len(s) - 1) |-> IF i < index THEN s[i] ELSE s[i + 1]]

includes(s, e) == \E i \in 1 .. Len(s) : s[i] = e

Range(s) == { s[i] : i \in 1 .. Len(s) }

\* Object.assign(e, patch): the keys of patch are written over e.
ObjectAssign(flds, patch) ==
    [k \in (DOMAIN flds) \cup (DOMAIN patch) |->
        IF k \in DOMAIN patch THEN patch[k] ELSE flds[k]]

\* delete e[key]
Delete(flds, key) == [k \in (DOMAIN flds) \ {key} |-> flds[k]]

\* A callback of the host that throws when it is called.
Thrower == 0

\* list.forEach(cb => cb(e)) ends by an exception: a callback of the list throws.
Throws(list) == \E i \in 1 .. Len(list) : list[i] = Thrower

\* list.forEach(cb => cb(e)): every registered callback once, in registration
\* order, up to the first that throws.  q is the query's position (0: a
\* store-level list).
Dispatch(q, hook, list, e) ==
    LET last == IF Throws(list)
                THEN CHOOSE i \in 1 .. Len(list) :
                        list[i] = Thrower /\ \A j \in 1 .. (i - 1) : list[j] # Thrower
                ELSE Len(list)
    IN  [i \in 1 .. last |-> [q |-> q, hook |-> hook, cb |-> list[i], e |-> e]]

\* The condition the host passed to where, applied to an entity.
\* e.hp <= 0 is false when hp is missing (undefined <= 0).
Condition(c, flds) == "hp" \in DOMAIN flds /\ flds["hp"] <= 0

\* ------------------------------------------------------------ World (part_000)

\* What the host passes to updateState / updateEntity: an update object
\* (merged by Object.assign) or a function, which edits the entity by a
\* sequence of assignments and deletes.
Edits == [op : {"set"}, key : {"x"}, val : {0}]
           \cup [op : {"delete"}, key : Names, val : {0}]

EditSeqs == UNION { [1 .. n -> Edits] : n \in 1 .. MaxOps }

Updates == { [fn |-> FALSE, patch |-> p, ops |-> <<>>] : p \in ObjectLiterals }
             \cup { [fn |-> TRUE, patch |-> <<>>, ops |-> s] : s \in EditSeqs }

ApplyEdit(flds, ed) ==
    IF ed.op = "set"
    THEN ObjectAssign(flds, [k \in {ed.key} |-> ed.val])
    ELSE Delete(flds, ed.key)

RECURSIVE ApplyEdits(_, _)
ApplyEdits(flds, ops) ==
    IF ops = <<>> THEN flds
    ELSE ApplyEdits(ApplyEdit(flds, Head(ops)), Tail(ops))

\* typeof updateOrFn === 'function' ? updateOrFn(e) : Object.assign(e, updateOrFn)
ApplyUpdate(flds, updateOrFn) ==
    IF updateOrFn.fn
    THEN ApplyEdits(flds, updateOrFn.ops)
    ELSE ObjectAssign(flds, updateOrFn.patch)

\* The host pushes MaxHooks callbacks on every hook list as soon as it holds
\* the list (the store's after new World(), a query's when has / none /
\* where returns).  A callback is named by its position in its list.
HostCallbacks == [i \in 1 .. MaxHooks |-> i]

\* A query object.  params, entities and the two hook lists are the fields
\* of the code's Query; kind and condition only record which method created
\* it (the code keeps neither).
NewQuery(kind, params, condition, ents) ==
    [kind |-> kind, params |-> params, condition |-> condition,
     entities |-> ents, onEntityAdded |-> HostCallbacks, onEntityRemoved |-> HostCallbacks]

\* updateQuery without its two tests of index: a matching entity is pushed
\* and announced whether or not the list already holds it.
updateQuery_noIndexTest(query, i, flds, e) ==
    LET hasAllComponents == \A param \in query.params : param \in DOMAIN flds
        index == indexOf(query.entities, e)
    IN  IF hasAllComponents
        THEN [query |-> [query EXCEPT !.entities = Append(@, e)],
              fired |-> Dispatch(i, "added", query.onEntityAdded, e),
              threw |-> Throws(query.onEntityAdded)]
        ELSE IF index # 0
        THEN [query |-> [query EXCEPT !.entities = splice(@, index)],
              fired |-> Dispatch(i, "removed", query.onEntityRemoved, e),
              threw |-> Throws(query.onEntityRemoved)]
        ELSE [query |-> query, fired |-> <<>>, threw |-> FALSE]

\* The body of updateQueries' loop for one query: the query afterwards and
\* the callbacks invoked.
updateQuery(query, i, flds, e) ==
    LET hasAllComponents == \A param \in query.params : param \in DOMAIN flds
        index == indexOf(query.entities, e)
    IN  IF hasAllComponents /\ index = 0
        THEN [query |-> [query EXCEPT !.entities = Append(@, e)],
              fired |-> Dispatch(i, "added", query.onEntityAdded, e),
              threw |-> Throws(query.onEntityAdded)]
        ELSE IF ~hasAllComponents /\ index # 0
        THEN [query |-> [query EXCEPT !.entities = splice(@, index)],
              fired |-> Dispatch(i, "removed", query.onEntityRemoved, e),
              threw |-> Throws(query.onEntityRemoved)]
        ELSE [query |-> query, fired |-> <<>>, threw |-> FALSE]

\* updateQueries(e): for (const query of this.queries) ..., from query i on.
\* An exception of a callback ends the loop.
RECURSIVE updateQueries(_, _, _, _)
updateQueries(qs, i, flds, e) ==
    IF i > Len(qs) THEN [queries |-> qs, fired |-> <<>>, threw |-> FALSE]
    ELSE LET one == updateQuery(qs[i], i, flds, e)
             rest == updateQueries([qs EXCEPT ![i] = one.query], i + 1, flds, e)
         IN  IF one.threw
             THEN [queries |-> [qs EXCEPT ![i] = one.query], fired |-> one.fired,
                   threw |-> TRUE]
             ELSE [queries |-> rest.queries, fired |-> one.fired \o rest.fired,
                   threw |-> rest.threw]

\* The keys whose presence or value differs between two states of an object.
ChangedKeys(old, new) ==
    { k \in (DOMAIN old) \cup (DOMAIN new) :
        \/ ~(k \in DOMAIN old /\ k \in DOMAIN new)
        \/ old[k] # new[k] }

\* No call is in progress and the log of the previous one has been read.
Idle == [op |-> "idle", e |-> 0, n |-> 0]

\* The host calls a method of the store it instantiated, one call at a time.
Called(class) == impl = class /\ lastOp = Idle

SwordUnchanged ==
    UNCHANGED <<entityMap, archetypes, entityIdCounter, archetypeDefinitions, assigned>>

World_add(e) ==
    /\ Called("World")
    /\ Len(entities) < MaxEntities
    /\ entities' = Append(entities, e)
    /\ IF Throws(onEntityAdded)
       THEN /\ queries' = queries
            /\ fired' = Dispatch(0, "added", onEntityAdded, e)
            /\ threw' = TRUE
       ELSE LET r == updateQueries(queries, 1, objs[e], e)
            IN  /\ queries' = r.queries
                /\ fired' = Dispatch(0, "added", onEntityAdded, e) \o r.fired
                /\ threw' = r.threw
    /\ lastOp' = [op |-> "add", e |-> e, n |-> 0]
    /\ UNCHANGED <<impl, objs, onEntityAdded, onEntityRemoved, systems, ran>>
    /\ SwordUnchanged

World_remove(e) ==
    /\ Called("World")
    /\ entities' = SelectSeq(entities, LAMBDA ent : ent # e)
    /\ IF Throws(onEntityRemoved)
       THEN /\ queries' = queries
            /\ fired' = Dispatch(0, "removed", onEntityRemoved, e)
            /\ threw' = TRUE
       ELSE LET r == updateQueries(queries, 1, objs[e], e)
            IN  /\ queries' = r.queries
                /\ fired' = Dispatch(0, "removed", onEntityRemoved, e) \o r.fired
                /\ threw' = r.threw
    /\ lastOp' = [op |-> "remove", e |-> e, n |-> 0]
    /\ UNCHANGED <<impl, objs, onEntityAdded, onEntityRemoved, systems, ran>>
    /\ SwordUnchanged

\* The shared part with a rollback: when a callback throws, the entity gets
\* its former keys and values back.
WorldMutate_rollback(op, e, flds) ==
    /\ LET r == updateQueries(queries, 1, flds, e)
       IN  /\ objs' = IF r.threw THEN objs ELSE [objs EXCEPT ![e] = flds]
           /\ queries' = r.queries
           /\ fired' = r.fired
           /\ threw' = r.threw
    /\ lastOp' = [op |-> op, e |-> e, n |-> Cardinality(ChangedKeys(objs[e], flds))]
    /\ UNCHANGED <<impl, entities, onEntityAdded, onEntityRemoved, systems, ran>>
    /\ SwordUnchanged

\* The part the three mutating methods share: the entity's new keys are in
\* place, then this.updateQueries(e).  To these methods the host passes an
\* entity of the store (the entityRef of the interface).
WorldMutate(op, e, flds) ==
    /\ objs' = [objs EXCEPT ![e] = flds]
    /\ LET r == updateQueries(queries, 1, flds, e)
       IN  /\ queries' = r.queries
           /\ fired' = r.fired
           /\ threw' = r.threw
    /\ lastOp' = [op |-> op, e |-> e, n |-> Cardinality(ChangedKeys(objs[e], flds))]
    /\ UNCHANGED <<impl, entities, onEntityAdded, onEntityRemoved, systems, ran>>
    /\ SwordUnchanged

World_addComponent(e, component, data) ==
    /\ Called("World")
    /\ includes(entities, e)
    /\ WorldMutate("addComponent", e, ObjectAssign(objs[e], [k \in {component} |-> data]))

World_removeComponent(e, component) ==
    /\ Called("World")
    /\ includes(entities, e)
    /\ WorldMutate("removeComponent", e, Delete(objs[e], component))

\* updateState re-evaluating the queries after every single edit instead of
\* once at the end (the edits of an update object: one assignment per key).
EditsOf(updateOrFn) ==
    IF updateOrFn.fn THEN updateOrFn.ops
    ELSE LET keys == SelectSeq(<<"x", "hp">>, LAMBDA k : k \in DOMAIN updateOrFn.patch)
         IN  [i \in 1 .. Len(keys) |->
                [op |-> "set", key |-> keys[i], val |-> updateOrFn.patch[keys[i]]]]

RECURSIVE updatePerEdit(_, _, _, _)
updatePerEdit(qs, flds, e, ops) ==
    IF ops = <<>> THEN [queries |-> qs, flds |-> flds, fired |-> <<>>]
    ELSE LET edited == ApplyEdit(flds, Head(ops))
             one == updateQueries(qs, 1, edited, e)
             rest == updatePerEdit(one.queries, edited, e, Tail(ops))
         IN  [queries |-> rest.queries, flds |-> rest.flds,
              fired |-> one.fired \o rest.fired]

World_updateState_perEdit(e, updateOrFn) ==
    /\ Called("World")
    /\ includes(entities, e)
    /\ LET r == updatePerEdit(queries, objs[e], e, EditsOf(updateOrFn))
       IN  /\ objs' = [objs EXCEPT ![e] = r.flds]
           /\ queries' = r.queries
           /\ fired' = r.fired
           /\ lastOp' = [op |-> "updateState", e |-> e,
                          n |-> Cardinality(ChangedKeys(objs[e], r.flds))]
    /\ UNCHANGED <<impl, entities, onEntityAdded, onEntityRemoved>>
    /\ SwordUnchanged
    /\ SystemsUnchanged

World_updateState(e, updateOrFn) ==
    /\ Called("World")
    /\ includes(entities, e)
    /\ WorldMutate("updateState", e, ApplyUpdate(objs[e], updateOrFn))

hasFilter(params, flds) == \A param \in params : param \in DOMAIN flds

\* none's filter written as has's (the ! left out).
noneFilter_asHas(params, flds) == \A param \in params : param \in DOMAIN flds

noneFilter(params, flds) == \A param \in params : ~(param \in DOMAIN flds)

WorldRegister(op, query) ==
    /\ queries' = Append(queries, query)
    /\ fired' = <<>>
    /\ lastOp' = [op |-> op, e |-> 0, n |-> 0]
    /\ UNCHANGED <<impl, objs, entities, onEntityAdded, onEntityRemoved>>
    /\ SwordUnchanged
    /\ SystemsUnchanged

World_has(params) ==
    /\ Called("World")
    /\ Len(queries) < MaxQueries
    /\ WorldRegister("has", NewQuery("has", params, "",
        SelectSeq(entities, LAMBDA e : hasFilter(params, objs[e]))))

World_none(params) ==
    /\ Called("World")
    /\ Len(queries) < MaxQueries
    /\ WorldRegister("none", NewQuery("none", params, "",
        SelectSeq(entities, LAMBDA e : noneFilter(params, objs[e]))))

World_where(condition) ==
    /\ Called("World")
    /\ Len(queries) < MaxQueries
    /\ WorldRegister("where", NewQuery("where", {}, condition,
        SelectSeq(entities, LAMBDA e : Condition(condition, objs[e]))))


\* ------------------------------------------------- Sword (src/components.ts)

\* (n).toString() for the ids the counter takes.
DecimalDigits == <<"0", "1", "2", "3", "4", "5", "6", "7", "8", "9">>

toString(n) == DecimalDigits[n + 1]

\* The key sets the host passes to getEntitiesWithComponents.
ComponentKeys == {{"x"}, {"x", "hp"}}

\* The keys the host passes to removeComponent.
SwordKeys == Names \cup {"id"}

EmptyMap == [k \in {} |-> 0]

MapSet(m, key, value) == [k \in (DOMAIN m) \cup {key} |-> IF k = key THEN value ELSE m[k]]

MapDelete(m, key) == [k \in (DOMAIN m) \ {key} |-> m[k]]

MapValues(m) == { m[k] : k \in DOMAIN m }

\* JavaScript truthiness of entity.id: the key is there and its value is
\* neither "" nor undefined.
Truthy(flds, key) == key \in DOMAIN flds /\ flds[key] \notin {"", Undefined}

isArchetypeMatch(archetype, entityArchetype) ==
    \A key \in archetype : key \in entityArchetype

\* The body of updateArchetypes' forEach for one entry of the map: the
\* query result afterwards and the callbacks invoked.
updateArchetype(queryResult, i, flds, entity, isRemoval) ==
    LET entityArchetype == DOMAIN flds
        matches == isArchetypeMatch(queryResult.archetype, entityArchetype)
        index == indexOf(queryResult.entities, entity)
        evicted == [queryResult |-> [queryResult EXCEPT !.entities = splice(@, index)],
                    fired |-> Dispatch(i, "removed", queryResult.onEntityRemoved, entity),
                    threw |-> Throws(queryResult.onEntityRemoved)]
        same == [queryResult |-> queryResult, fired |-> <<>>, threw |-> FALSE]
    IN  IF matches
        THEN IF isRemoval
             THEN IF index # 0 THEN evicted ELSE same
             ELSE IF ~includes(queryResult.entities, entity)
                  THEN [queryResult |-> [queryResult EXCEPT !.entities = Append(@, entity)],
                        fired |-> Dispatch(i, "added", queryResult.onEntityAdded, entity),
                        threw |-> Throws(queryResult.onEntityAdded)]
                  ELSE same
        ELSE IF includes(queryResult.entities, entity)
             THEN IF index # 0 THEN evicted ELSE same
             ELSE same

\* updateArchetypes(entity, isRemoval): this.archetypes.forEach(...), from
\* entry i on, in insertion order.  An exception of a callback ends the loop.
RECURSIVE updateArchetypes(_, _, _, _, _)
updateArchetypes(as, i, flds, entity, isRemoval) ==
    IF i > Len(as) THEN [archetypes |-> as, fired |-> <<>>, threw |-> FALSE]
    ELSE LET one == updateArchetype(as[i], i, flds, entity, isRemoval)
             rest == updateArchetypes([as EXCEPT ![i] = one.queryResult], i + 1,
                                      flds, entity, isRemoval)
         IN  IF one.threw
             THEN [archetypes |-> [as EXCEPT ![i] = one.queryResult],
                   fired |-> one.fired, threw |-> TRUE]
             ELSE [archetypes |-> rest.archetypes, fired |-> one.fired \o rest.fired,
                   threw |-> rest.threw]

\* After updateArchetypes: this.<hook>.forEach(callback => callback(entity)),
\* reached when updateArchetypes returned.
thenStoreHooks(r, hook, list, entity) ==
    IF r.threw THEN [fired |-> r.fired, threw |-> TRUE]
    ELSE [fired |-> r.fired \o Dispatch(0, hook, list, entity), threw |-> Throws(list)]

WorldUnchanged == UNCHANGED <<entities, queries>>

Sword_createEntity(entity) ==
    /\ Called("Sword")
    /\ entityIdCounter < MaxIds
    /\ LET id == toString(entityIdCounter)
           flds == ObjectAssign(objs[entity], [k \in {"id"} |-> id])
           r == updateArchetypes(archetypes, 1, flds, entity, FALSE)
       IN  /\ entityIdCounter' = entityIdCounter + 1
           /\ objs' = [objs EXCEPT ![entity] = flds]
           /\ entityMap' = MapSet(entityMap, id, entity)
           /\ archetypes' = r.archetypes
           /\ fired' = thenStoreHooks(r, "added", onEntityAdded, entity).fired
           /\ threw' = thenStoreHooks(r, "added", onEntityAdded, entity).threw
           /\ assigned' = assigned \cup {id}
    /\ lastOp' = [op |-> "createEntity", e |-> entity, n |-> 1]
    /\ UNCHANGED <<impl, onEntityAdded, onEntityRemoved, archetypeDefinitions,
                   systems, ran>>
    /\ WorldUnchanged

Sword_removeEntity(entity) ==
    /\ Called("Sword")
    /\ IF Truthy(objs[entity], "id")
       THEN LET r == updateArchetypes(archetypes, 1, objs[entity], entity, TRUE)
            IN  /\ entityMap' = MapDelete(entityMap, objs[entity]["id"])
                /\ archetypes' = r.archetypes
                /\ fired' = thenStoreHooks(r, "removed", onEntityRemoved, entity).fired
                /\ threw' = thenStoreHooks(r, "removed", onEntityRemoved, entity).threw
       ELSE /\ fired' = <<>>
            /\ UNCHANGED <<entityMap, archetypes, threw>>
    /\ lastOp' = [op |-> "removeEntity", e |-> entity, n |-> 0]
    /\ UNCHANGED <<impl, objs, entityIdCounter, onEntityAdded, onEntityRemoved,
                   archetypeDefinitions, assigned, systems, ran>>
    /\ WorldUnchanged

\* The part the three mutating methods share: the entity's new keys are in
\* place, then this.updateArchetypes(entity).  To these methods the host
\* passes an entity of the store.
SwordMutate(op, entity, flds) ==
    /\ objs' = [objs EXCEPT ![entity] = flds]
    /\ LET r == updateArchetypes(archetypes, 1, flds, entity, FALSE)
       IN  /\ archetypes' = r.archetypes
           /\ fired' = r.fired
           /\ threw' = r.threw
    /\ lastOp' = [op |-> op, e |-> entity,
                   n |-> Cardinality(ChangedKeys(objs[entity], flds))]
    /\ UNCHANGED <<impl, entityMap, entityIdCounter, onEntityAdded, onEntityRemoved,
                   archetypeDefinitions, assigned, systems, ran>>
    /\ WorldUnchanged

Sword_addComponent(entity, component) ==
    /\ Called("Sword")
    /\ entity \in MapValues(entityMap)
    /\ SwordMutate("addComponent", entity, ObjectAssign(objs[entity], component))

Sword_removeComponent(entity, componentKey) ==
    /\ Called("Sword")
    /\ entity \in MapValues(entityMap)
    /\ SwordMutate("removeComponent", entity, Delete(objs[entity], componentKey))

Sword_updateEntity(entity, updatesOrFunction) ==
    /\ Called("Sword")
    /\ entity \in MapValues(entityMap)
    /\ SwordMutate("updateEntity", entity, ApplyUpdate(objs[entity], updatesOrFunction))

\* archetype is a new Set object, and a Map compares object keys by
\* identity: this.archetypes.has(archetype) is false on every call.
Sword_getEntitiesWithComponents(componentKeys) ==
    /\ Called("Sword")
    /\ Len(archetypes) < MaxQueries
    /\ archetypes' = Append(archetypes,
            [archetype |-> componentKeys, entities |-> <<>>,
             onEntityAdded |-> HostCallbacks, onEntityRemoved |-> HostCallbacks])
    /\ fired' = <<>>
    /\ lastOp' = [op |-> "getEntitiesWithComponents", e |-> 0, n |-> 0]
    /\ UNCHANGED <<impl, objs, entityMap, entityIdCounter, onEntityAdded, onEntityRemoved,
                   archetypeDefinitions, assigned>>
    /\ WorldUnchanged
    /\ SystemsUnchanged

SwordNext ==
    \/ \E entity \in Objs : Sword_createEntity(entity)
    \/ \E entity \in Objs : Sword_removeEntity(entity)
    \/ \E entity \in Objs, component \in ObjectLiterals : Sword_addComponent(entity, component)
    \/ \E entity \in Objs, componentKey \in SwordKeys :
            Sword_removeComponent(entity, componentKey)
    \/ \E entity \in Objs, updatesOrFunction \in Updates :
            Sword_updateEntity(entity, updatesOrFunction)
    \/ \E componentKeys \in ComponentKeys : Sword_getEntitiesWithComponents(componentKeys)

\* The host has seen what the call did (the callbacks ran inside it) and is
\* about to make its next call: the log of invoked callbacks starts empty.
Return ==
    /\ lastOp # Idle
    /\ lastOp' = Idle
    /\ fired' = <<>>
    /\ ran' = <<>>
    /\ threw' = FALSE
    /\ UNCHANGED <<impl, objs, onEntityAdded, onEntityRemoved, systems>>
    /\ WorldUnchanged
    /\ SwordUnchanged

WorldNext ==
    \/ \E e \in Objs : World_add(e)
    \/ \E e \in Objs : World_remove(e)
    \/ \E e \in Objs, component \in Names : \E data \in ValuesOf(component) :
            World_addComponent(e, component, data)
    \/ \E e \in Objs, component \in Names : World_removeComponent(e, component)
    \/ \E e \in Objs, updateOrFn \in Updates : World_updateState(e, updateOrFn)
    \/ \E params \in HasParams : World_has(params)
    \/ \E params \in NoneParams : World_none(params)
    \/ \E condition \in Conditions : World_where(condition)

InitStore(class) ==
    /\ impl = class
    /\ objs \in [Objs -> ObjectLiterals]
    /\ entities = <<>>
    /\ queries = <<>>
    /\ onEntityAdded = HostCallbacks
    /\ onEntityRemoved = HostCallbacks
    /\ entityMap = EmptyMap
    /\ archetypes = <<>>
    /\ entityIdCounter = 0
    /\ systems = <<>>
    /\ archetypeDefinitions = EmptyMap
    /\ assigned = {}
    /\ ran = <<>>
    /\ threw = FALSE
    /\ fired = <<>>
    /\ lastOp = Idle

Init == \E class \in {"World", "Sword"} : InitStore(class)

Next ==
    \/ WorldNext
    \/ SwordNext
    \/ Return

Spec == Init /\ [][Next]_vars

\* The two classes on their own.
InitWorld == InitStore("World")

NextWorld ==
    \/ WorldNext
    \/ Return

SpecWorld == InitWorld /\ [][NextWorld]_vars

InitSword == InitStore("Sword")

NextSword ==
    \/ SwordNext
    \/ Return

SpecSword == InitSword /\ [][NextSword]_vars

\* ------------------------------------------------------------------ systems

\* The functions the host registers as systems of a Sword store, named by what
\* they do when the tick calls them: nothing to the list ("noop"), stop
\* themselves (store.stopSystems(self)), register one more system
\* (store.addSystem(noop)); "bound" is a bound function (f.bind(o)), which
\* does nothing to the list.  "restored" is a function deserialize built.
SystemFns == {"noop", "stopSelf", "grow", "bound"}

\* World has no method that removes a system.
WorldSystemFns == {"noop", "grow"}

\* The values of dt the host passes to a tick.
Dts == {1, 2}

\* this.systems.splice(this.systems.indexOf(system), 1): indexOf is -1 for a
\* system that is not in the list, and splice(-1, 1) removes the last element.
stopSystem(list, system) ==
    LET index == indexOf(list, system)
    IN  IF index # 0 THEN splice(list, index)
        ELSE IF list = <<>> THEN list
        ELSE splice(list, Len(list))

\* for (const system of systems) { splice ... }
RECURSIVE stopSystemsLoop(_, _)
stopSystemsLoop(list, args) ==
    IF args = <<>> THEN list
    ELSE stopSystemsLoop(stopSystem(list, Head(args)), Tail(args))

\* What calling a system does to the systems list.
CallSystem(list, system) ==
    CASE system = "stopSelf" -> stopSystem(list, system)
      [] system = "grow" -> Append(list, "noop")
      [] OTHER -> list

\* for (const system of this.systems) system(dt): the array iterator reads
\* the live list, position after position, until the position is past its
\* end.  i is the position (1-based) the iterator is at.
RECURSIVE forOf(_, _, _)
forOf(list, i, dt) ==
    IF i > Len(list) THEN [systems |-> list, ran |-> <<>>]
    ELSE LET rest == forOf(CallSystem(list, list[i]), i + 1, dt)
         IN  [systems |-> rest.systems,
              ran |-> <<[system |-> list[i], dt |-> dt]>> \o rest.ran]

\* this.systems.forEach(system => system(deltaTime)): forEach visits the
\* positions below the length the list had when it started, reading the live
\* list.
RECURSIVE forEach(_, _, _, _)
forEach(list, i, len, dt) ==
    IF i > len \/ i > Len(list) THEN [systems |-> list, ran |-> <<>>]
    ELSE LET rest == forEach(CallSystem(list, list[i]), i + 1, len, dt)
         IN  [systems |-> rest.systems,
              ran |-> <<[system |-> list[i], dt |-> dt]>> \o rest.ran]

\* The systems a tick may append: one per "grow" in the list.
Growth(list) == Cardinality({ i \in 1 .. Len(list) : list[i] = "grow" })

\* A call that touches only the systems list.
OnlySystems(op) ==
    /\ fired' = <<>>
    /\ threw' = FALSE
    /\ lastOp' = [op |-> op, e |-> 0, n |-> 0]
    /\ UNCHANGED <<impl, objs, onEntityAdded, onEntityRemoved>>
    /\ WorldUnchanged
    /\ SwordUnchanged

Sword_addSystem(system) ==
    /\ Called("Sword")
    /\ Len(systems) < MaxSystems
    /\ systems' = Append(systems, system)
    /\ ran' = <<>>
    /\ OnlySystems("addSystem")

Sword_stopSystems(stopped) ==
    /\ Called("Sword")
    /\ systems' = stopSystemsLoop(systems, stopped)
    /\ ran' = <<>>
    /\ OnlySystems("stopSystems")

Sword_update(dt) ==
    /\ Called("Sword")
    /\ Len(systems) + Growth(systems) <= MaxSystems + 1
    /\ LET r == forOf(systems, 1, dt)
       IN  /\ systems' = r.systems
           /\ ran' = r.ran
    /\ OnlySystems("update")

World_addSystem(system) ==
    /\ Called("World")
    /\ Len(systems) < MaxSystems
    /\ systems' = Append(systems, system)
    /\ ran' = <<>>
    /\ OnlySystems("addSystem")

World_runSystems(deltaTime) ==
    /\ Called("World")
    /\ Len(systems) + Growth(systems) <= MaxSystems + 1
    /\ LET r == forEach(systems, 1, Len(systems), deltaTime)
       IN  /\ systems' = r.systems
           /\ ran' = r.ran
    /\ OnlySystems("runSystems")

\* The lists of systems the host passes to stopSystems.
StopLists == UNION { [1 .. n -> SystemFns] : n \in 1 .. MaxSystems }

SystemsNext ==
    \/ \E system \in SystemFns : Sword_addSystem(system)
    \/ \E stopped \in StopLists : Sword_stopSystems(stopped)
    \/ \E dt \in Dts : Sword_update(dt)
    \/ \E system \in WorldSystemFns : World_addSystem(system)
    \/ \E deltaTime \in Dts : World_runSystems(deltaTime)
    \/ Return

SpecSystems == Init /\ [][SystemsNext]_vars

\* ---------------------------------------------------------------- snapshots

\* parseInt of an id; NaN for one that does not begin with a digit.
parseInt(s) ==
    IF \E n \in 0 .. 9 : DecimalDigits[n + 1] = s
    THEN CHOOSE n \in 0 .. 9 : DecimalDigits[n + 1] = s
    ELSE NaN

\* system.toString(): the source text of the function (named here as the
\* function is), and "function () { [native code] }" for a bound function.
NativeCode == "function () { [native code] }"

functionToString(system) == IF system = "bound" THEN NativeCode ELSE system

\* new Function(serializedSystem) takes the text as the body of a new
\* function: a SyntaxError for the text of a native function, and otherwise a
\* function that, when called, only evaluates the text.
SyntaxError(text) == text = NativeCode

newFunction(text) == "restored"

\* The keys of this.entities in the order forEach visits them.  (A Map
\* iterates in insertion order; createEntity inserts in counter order.)
MapKeys(m) == SelectSeq(DecimalDigits \o <<Undefined>>, LAMBDA id : id \in DOMAIN m)

\* serialize(): what it returns in the current state.
serialize ==
    LET ids == MapKeys(entityMap)
    IN  [entities |-> [i \in 1 .. Len(ids) |->
                          [id |-> ids[i], components |-> objs[entityMap[ids[i]]]]],
         systems |-> [i \in 1 .. Len(systems) |-> functionToString(systems[i])]]

\* The entities restored with entityIdCounter left as it was.
RECURSIVE restoreEntities_keepCounter(_, _, _, _)
restoreEntities_keepCounter(serializedEntities, m, os, counter) ==
    IF serializedEntities = <<>>
    THEN [entityMap |-> m, objs |-> os, entityIdCounter |-> counter]
    ELSE LET serializedEntity == Head(serializedEntities)
             entity == ObjectAssign([k \in {"id"} |-> serializedEntity.id],
                                    serializedEntity.components)
         IN  restoreEntities_keepCounter(Tail(serializedEntities),
                                         MapSet(m, serializedEntity.id, Len(os) + 1),
                                         Append(os, entity), counter)

\* data.entities.forEach(...) of deserialize: every entity of the snapshot is
\* a new object, stored under the snapshot's id.
RECURSIVE restoreEntities(_, _, _, _)
restoreEntities(serializedEntities, m, os, counter) ==
    IF serializedEntities = <<>>
    THEN [entityMap |-> m, objs |-> os, entityIdCounter |-> counter]
    ELSE LET serializedEntity == Head(serializedEntities)
             entity == ObjectAssign([k \in {"id"} |-> serializedEntity.id],
                                    serializedEntity.components)
             n == parseInt(serializedEntity.id)
         IN  restoreEntities(Tail(serializedEntities),
                             MapSet(m, serializedEntity.id, Len(os) + 1),
                             Append(os, entity),
                             IF n # NaN /\ n >= counter THEN n + 1 ELSE counter)

\* data.systems.forEach(...) of deserialize, which the first SyntaxError ends.
RECURSIVE restoreSystems(_, _)
restoreSystems(serializedSystems, list) ==
    IF serializedSystems = <<>> THEN [systems |-> list, threw |-> FALSE]
    ELSE IF SyntaxError(Head(serializedSystems)) THEN [systems |-> list, threw |-> TRUE]
    ELSE restoreSystems(Tail(serializedSystems),
                        Append(list, newFunction(Head(serializedSystems))))

Sword_deserialize(data) ==
    /\ Called("Sword")
    /\ Len(objs) + Len(data.entities) <= NumObjs + MaxFresh
    /\ LET r == restoreEntities(data.entities, EmptyMap, objs, entityIdCounter)
           s == restoreSystems(data.systems, <<>>)
       IN  /\ objs' = r.objs
           /\ entityMap' = r.entityMap
           /\ entityIdCounter' = r.entityIdCounter
           /\ systems' = s.systems
           /\ threw' = s.threw
    /\ fired' = <<>>
    /\ ran' = <<>>
    /\ lastOp' = [op |-> "deserialize", e |-> 0, n |-> 0]
    /\ UNCHANGED <<impl, onEntityAdded, onEntityRemoved, archetypes,
                   archetypeDefinitions, assigned>>
    /\ WorldUnchanged

\* The snapshots the host passes to deserialize other than what serialize
\* returned: ids that repeat or are missing, systems that are the text of an
\* ordinary or of a native function.
SnapshotIds == {"0", "1", Undefined}

SerializedEntities == [id : SnapshotIds, components : ObjectsOver({"x"})]

Snapshots ==
    [entities : UNION { [1 .. n -> SerializedEntities] : n \in 0 .. MaxFresh },
     systems : UNION { [1 .. n -> {"noop", NativeCode}] : n \in 0 .. MaxSystems }]

\* createEntity, removeEntity, addSystem and deserialize of a host snapshot.
RestoreNext ==
    \/ \E entity \in Objs : Sword_createEntity(entity)
    \/ \E entity \in Objs : Sword_removeEntity(entity)
    \/ \E system \in SystemFns : Sword_addSystem(system)
    \/ \E data \in Snapshots : Sword_deserialize(data)
    \/ Return

\* The host's objects carry at most the component x here.
InitRestore == InitSword /\ \A o \in Objs : DOMAIN objs[o] \subseteq {"x"}

SpecRestore == InitRestore /\ [][RestoreNext]_vars

\* The entity methods of Sword and deserialize(serialize()).
RoundTripNext ==
    \/ \E entity \in Objs : Sword_createEntity(entity)
    \/ \E entity \in Objs : Sword_removeEntity(entity)
    \/ \E entity \in Objs, component \in ObjectLiterals : Sword_addComponent(entity, component)
    \/ \E entity \in Objs, componentKey \in SwordKeys :
            Sword_removeComponent(entity, componentKey)
    \/ Sword_deserialize(serialize)
    \/ Return

SpecRoundTrip == InitSword /\ [][RoundTripNext]_vars

\* ---------------------------------------------------------------- templates

\* The names the host gives its archetype definitions.
TemplateNames == {"a", "b"}

\* The component maps the host registers as templates.
Templates == ObjectsOver({"x"}) \cup { f \in ObjectsOver(Names) : f["hp"] = 10 }

Sword_generateArchetype(name, components) ==
    /\ Called("Sword")
    /\ archetypeDefinitions' = MapSet(archetypeDefinitions, name, components)
    /\ fired' = <<>>
    /\ lastOp' = [op |-> "generateArchetype", e |-> 0, n |-> 0]
    /\ UNCHANGED <<impl, objs, entityMap, archetypes, entityIdCounter, assigned,
                   onEntityAdded, onEntityRemoved>>
    /\ WorldUnchanged
    /\ SystemsUnchanged

\* this.createEntity({ ...components, ...newData }): the entity is a new
\* object, the next of objs.
createFromTemplate(components, newData) ==
    LET entity == Len(objs) + 1
        id == toString(entityIdCounter)
        flds == ObjectAssign(ObjectAssign(components, newData), [k \in {"id"} |-> id])
        r == updateArchetypes(archetypes, 1, flds, entity, FALSE)
    IN  /\ entityIdCounter' = entityIdCounter + 1
        /\ objs' = Append(objs, flds)
        /\ entityMap' = MapSet(entityMap, id, entity)
        /\ archetypes' = r.archetypes
        /\ fired' = thenStoreHooks(r, "added", onEntityAdded, entity).fired
        /\ threw' = thenStoreHooks(r, "added", onEntityAdded, entity).threw
        /\ assigned' = assigned \cup {id}
        /\ lastOp' = [op |-> "createEntityFromArchetype", e |-> entity, n |-> 1]

\* createEntityFromArchetype without the test of the lookup: an unknown name
\* creates an entity from newData alone.
Sword_createEntityFromArchetype_unguarded(name, newData) ==
    /\ Called("Sword")
    /\ entityIdCounter < MaxIds
    /\ Len(objs) < NumObjs + MaxFresh
    /\ createFromTemplate(IF name \in DOMAIN archetypeDefinitions
                          THEN archetypeDefinitions[name] ELSE EmptyMap, newData)
    /\ UNCHANGED <<impl, onEntityAdded, onEntityRemoved, archetypeDefinitions,
                   systems, ran>>
    /\ WorldUnchanged

\* lastOp.e is the entity returned, 0 for null.
Sword_createEntityFromArchetype(name, newData) ==
    /\ Called("Sword")
    /\ entityIdCounter < MaxIds
    /\ Len(objs) < NumObjs + MaxFresh
    /\ IF name \in DOMAIN archetypeDefinitions
       THEN createFromTemplate(archetypeDefinitions[name], newData)
       ELSE /\ fired' = <<>>
            /\ lastOp' = [op |-> "createEntityFromArchetype", e |-> 0, n |-> 0]
            /\ UNCHANGED <<objs, entityMap, archetypes, entityIdCounter, assigned,
                           threw>>
    /\ UNCHANGED <<impl, onEntityAdded, onEntityRemoved, archetypeDefinitions,
                   systems, ran>>
    /\ WorldUnchanged

\* The template methods, with queries.
TemplatesNext ==
    \/ \E name \in TemplateNames, components \in Templates :
            Sword_generateArchetype(name, components)
    \/ \E name \in TemplateNames, newData \in ObjectLiterals :
            Sword_createEntityFromArchetype(name, newData)
    \/ \E componentKeys \in ComponentKeys : Sword_getEntitiesWithComponents(componentKeys)
    \/ Return

SpecTemplates == InitRestore /\ [][TemplatesNext]_vars

\* ------------------------------------------------------------------ failing callbacks
\* The hook lists are public arrays: the host registers a callback by pushing
\* it.  Here the host pushes a callback that throws.

\* How many throwing callbacks the host registers in all.
MaxThrowers == 1

RECURSIVE ThrowersIn(_)
ThrowersIn(ls) ==
    IF ls = <<>> THEN 0
    ELSE (IF Throws(Head(ls).onEntityAdded) THEN 1 ELSE 0)
         + (IF Throws(Head(ls).onEntityRemoved) THEN 1 ELSE 0)
         + ThrowersIn(Tail(ls))

ThrowerCount ==
    ThrowersIn(<<[onEntityAdded |-> onEntityAdded, onEntityRemoved |-> onEntityRemoved]>>)
    + ThrowersIn(queries) + ThrowersIn(archetypes)

HookNames == {"added", "removed"}

HostPush(op) ==
    /\ lastOp = Idle
    /\ ThrowerCount < MaxThrowers
    /\ fired' = <<>>
    /\ lastOp' = [op |-> op, e |-> 0, n |-> 0]
    /\ UNCHANGED <<impl, objs, entities, entityMap, entityIdCounter,
                   archetypeDefinitions, assigned>>
    /\ SystemsUnchanged

\* store.onEntityAdded.push(cb), store.onEntityRemoved.push(cb)
Store_hookPush(hook) ==
    /\ HostPush("storeHookPush")
    /\ onEntityAdded' = IF hook = "added" THEN Append(onEntityAdded, Thrower)
                        ELSE onEntityAdded
    /\ onEntityRemoved' = IF hook = "removed" THEN Append(onEntityRemoved, Thrower)
                          ELSE onEntityRemoved
    /\ UNCHANGED <<queries, archetypes>>

PushOn(query, hook) ==
    IF hook = "added" THEN [query EXCEPT !.onEntityAdded = Append(@, Thrower)]
    ELSE [query EXCEPT !.onEntityRemoved = Append(@, Thrower)]

\* query.onEntityAdded.push(cb), query.onEntityRemoved.push(cb) on the query
\* that has returned.
World_queryHookPush(i, hook) ==
    /\ impl = "World"
    /\ i <= Len(queries)
    /\ HostPush("queryHookPush")
    /\ queries' = [queries EXCEPT ![i] = PushOn(@, hook)]
    /\ UNCHANGED <<archetypes, onEntityAdded, onEntityRemoved>>

\* The same on the query result that getEntitiesWithComponents returned.
Sword_queryHookPush(i, hook) ==
    /\ impl = "Sword"
    /\ i <= Len(archetypes)
    /\ HostPush("queryHookPush")
    /\ archetypes' = [archetypes EXCEPT ![i] = PushOn(@, hook)]
    /\ UNCHANGED <<queries, onEntityAdded, onEntityRemoved>>

\* The host of this part changes the hp component only: every object keeps
\* the x it starts with.
HpUpdates ==
    { u \in Updates :
        IF u.fn THEN \A i \in 1 .. Len(u.ops) : u.ops[i].key = "hp"
        ELSE DOMAIN u.patch = {"hp"} }

\* The mutating methods of both classes, the has-queries, and a host that
\* registers throwing callbacks.
FailingNext ==
    \/ \E e \in Objs : World_add(e)
    \/ \E e \in Objs : World_remove(e)
    \/ \E e \in Objs, data \in ValuesOf("hp") : World_addComponent(e, "hp", data)
    \/ \E e \in Objs : World_removeComponent(e, "hp")
    \/ \E e \in Objs, updateOrFn \in HpUpdates : World_updateState(e, updateOrFn)
    \/ \E params \in HasParams : World_has(params)
    \/ \E entity \in Objs : Sword_createEntity(entity)
    \/ \E entity \in Objs : Sword_removeEntity(entity)
    \/ \E entity \in Objs, component \in ObjectsOver({"hp"}) :
            Sword_addComponent(entity, component)
    \/ \E entity \in Objs : Sword_removeComponent(entity, "hp")
    \/ \E entity \in Objs, updatesOrFunction \in HpUpdates :
            Sword_updateEntity(entity, updatesOrFunction)
    \/ \E componentKeys \in ComponentKeys : Sword_getEntitiesWithComponents(componentKeys)
    \/ \E hook \in HookNames : Store_hookPush(hook)
    \/ \E i \in 1 .. MaxQueries, hook \in HookNames : World_queryHookPush(i, hook)
    \/ \E i \in 1 .. MaxQueries, hook \in HookNames : Sword_queryHookPush(i, hook)
    \/ Return

InitFailing == Init /\ \A o \in Objs : "x" \in DOMAIN objs[o]

SpecFailing == InitFailing /\ [][FailingNext]_vars

\* ------------------------------------------------------------------ claims

\* What the interface promises of a query, stated from its creation: the
\* entity contains every name (has), none of the names (none), or satisfies
\* the condition e.hp <= 0 (where).
ContainsEvery(names, flds) == names \subseteq DOMAIN flds

ContainsNone(names, flds) == names \cap (DOMAIN flds) = {}

HpAtMostZero(flds) == \E v \in {0, 10} : "hp" \in DOMAIN flds /\ flds["hp"] = v /\ v <= 0

Promised(query, flds) ==
    CASE query.kind = "has" -> ContainsEvery(query.params, flds)
      [] query.kind = "none" -> ContainsNone(query.params, flds)
      [] query.kind = "where" -> HpAtMostZero(flds)

Stored == Range(entities)

\* The cached list of every query of the kind holds exactly the stored
\* entities the query promises.
CachesExact(kind) ==
    \A i \in 1 .. Len(queries) :
        queries[i].kind = kind =>
            Range(queries[i].entities) = { e \in Stored : Promised(queries[i], objs[e]) }

\* The callbacks a call invoked for query i (0: the store's lists), in order.
FiredFor(log, i) == SelectSeq(log, LAMBDA ev : ev.q = i)

\* One dispatch of a hook list: each callback once, in registration order.
OneDispatch(i, hook, list, e) ==
    [k \in 1 .. Len(list) |-> [q |-> i, hook |-> hook, cb |-> list[k], e |-> e]]

C2_RemoveEvictsFromEveryQuery ==
    [][ ( /\ lastOp'.op = "remove"
          /\ includes(entities, lastOp'.e)
          /\ CachesExact("has") /\ CachesExact("none") /\ CachesExact("where") )
        => \A i \in 1 .. Len(queries) :
              includes(queries[i].entities, lastOp'.e)
                  => ~includes(queries'[i].entities, lastOp'.e) ]_vars

\* C3: (World) add, addComponent, removeComponent and updateState each leave
\* every none-query's cached list equal to the set of stored entities that
\* contain none of the query's names.
C3_NoneCacheExactAfterEachOperation ==
    [][ ( /\ lastOp'.op \in {"add", "addComponent", "removeComponent", "updateState"}
          /\ CachesExact("none") )
        => CachesExact("none")' ]_vars

\* C4: (World) add, addComponent, removeComponent and updateState each leave
\* every where-query's cached list equal to the set of stored entities whose
\* current state satisfies the query's condition.
C4_WhereCacheExactAfterEachOperation ==
    [][ ( /\ lastOp'.op \in {"add", "addComponent", "removeComponent", "updateState"}
          /\ CachesExact("where") )
        => CachesExact("where")' ]_vars

\* C5: (World) a mutation (addComponent, removeComponent, updateState) of a
\* stored entity e invokes, for every has-query q: each onEntityAdded callback
\* of q once, in registration order, and nothing else of q, if e was not in
\* q's cached list and contains every name of q after the mutation; each
\* onEntityRemoved callback of q once, in registration order, and nothing else
\* of q, if e was in the list and no longer contains every name; and no
\* callback of q otherwise.
C5_HooksFireExactlyOnTransitions ==
    [][ ( /\ lastOp'.op \in {"addComponent", "removeComponent", "updateState"}
          /\ includes(entities, lastOp'.e) )
        => \A i \in 1 .. Len(queries) :
              queries[i].kind = "has" =>
                LET e == lastOp'.e
                    was == includes(queries[i].entities, e)
                    now == ContainsEvery(queries[i].params, objs'[e])
                IN  FiredFor(fired', i) =
                      IF ~was /\ now
                      THEN OneDispatch(i, "added", queries[i].onEntityAdded, e)
                      ELSE IF was /\ ~now
                      THEN OneDispatch(i, "removed", queries[i].onEntityRemoved, e)
                      ELSE <<>> ]_vars

\* C5 witness: addComponent has made a stored entity a member of a has-query,
\* and that query's onEntityAdded callbacks ran once each, in order.
C5_Witness ==
    /\ lastOp.op = "addComponent"
    /\ lastOp.n = 1
    /\ \E i \in 1 .. Len(queries) :
          /\ queries[i].kind = "has"
          /\ Len(queries[i].onEntityAdded) >= 2
          /\ includes(queries[i].entities, lastOp.e)
          /\ FiredFor(fired, i) = OneDispatch(i, "added", queries[i].onEntityAdded, lastOp.e)

\* C6: one call of World.updateState or Sword.updateEntity re-evaluates the
\* queries once, however many keys it changes: during the call every callback
\* of every query is invoked at most once, and no query has both its
\* onEntityAdded and its onEntityRemoved list dispatched.
C6_UpdateFiresEachHookAtMostOnce ==
    lastOp.op \in {"updateState", "updateEntity"} =>
        \A i \in 1 .. MaxQueries :
            /\ \A hook \in {"added", "removed"} : \A cb \in 1 .. MaxHooks :
                  Cardinality({ k \in 1 .. Len(fired) :
                      fired[k].q = i /\ fired[k].hook = hook /\ fired[k].cb = cb }) <= 1
            /\ ~ ( /\ \E k \in 1 .. Len(fired) : fired[k].q = i /\ fired[k].hook = "added"
                   /\ \E k \in 1 .. Len(fired) : fired[k].q = i /\ fired[k].hook = "removed" )

\* C6 witness: an updateState that changed two keys of the entity has made it
\* a member of a query, whose onEntityAdded callbacks ran.
C6_Witness ==
    /\ lastOp.op = "updateState"
    /\ lastOp.n >= 2
    /\ \E i \in 1 .. Len(queries) :
          /\ queries[i].params = {"x", "hp"}
          /\ FiredFor(fired, i) = OneDispatch(i, "added", queries[i].onEntityAdded, lastOp.e)
          /\ fired # <<>>

\* C7: (World) when has, none or where returns, the new query is the last of
\* the world's query list and its cached list holds exactly the stored
\* entities that satisfy what the query promises.
C7_NewQueryIsRegisteredAndExact ==
    lastOp.op \in {"has", "none", "where"} =>
        /\ Len(queries) >= 1
        /\ LET query == queries[Len(queries)]
           IN  /\ query.kind = lastOp.op
               /\ Range(query.entities) = { e \in Stored : Promised(query, objs[e]) }

\* C7 witness: with A {hp: 10} and B {hp: 0} stored, where(e => e.hp <= 0)
\* has returned a query whose cached list is [B].
C7_Witness ==
    /\ lastOp.op = "where"
    /\ \E a, b \in Stored :
          /\ "hp" \in DOMAIN objs[a] /\ objs[a]["hp"] = 10
          /\ "hp" \in DOMAIN objs[b] /\ objs[b]["hp"] = 0
          /\ queries[Len(queries)].entities = <<b>>

\* C8: (Sword) when getEntitiesWithComponents(keys) returns, the entities
\* list of the returned query result contains every stored entity that has
\* all the keys.
C8_GetEntitiesContainsEveryMatch ==
    lastOp.op = "getEntitiesWithComponents" =>
        \A e \in MapValues(entityMap) :
            ContainsEvery(archetypes[Len(archetypes)].archetype, objs[e])
                => includes(archetypes[Len(archetypes)].entities, e)

\* C9: (Sword) removeEntity of a stored entity removes it from every query
\* result that held it and invokes that result's onEntityRemoved callbacks
\* once each, and nothing else of it; a query result that did not hold the
\* entity is unchanged and none of its callbacks is invoked.
C9_RemoveEntityEvictsEverywhere ==
    [][ ( /\ lastOp'.op = "removeEntity"
          /\ lastOp'.e \in MapValues(entityMap) )
        => \A i \in 1 .. Len(archetypes) :
              LET e == lastOp'.e
              IN  IF includes(archetypes[i].entities, e)
                  THEN /\ ~includes(archetypes'[i].entities, e)
                       /\ FiredFor(fired', i) =
                            OneDispatch(i, "removed", archetypes[i].onEntityRemoved, e)
                  ELSE /\ archetypes'[i] = archetypes[i]
                       /\ FiredFor(fired', i) = <<>> ]_vars

\* C10: World.remove and Sword.removeEntity of an entity that is not in the
\* store change neither the store nor any cached list and invoke no
\* onEntityRemoved callback, of the store or of a query.
C10_RemoveOfAbsentEntityIsNoOp ==
    [][ ( \/ lastOp'.op = "remove" /\ ~includes(entities, lastOp'.e)
          \/ lastOp'.op = "removeEntity" /\ ~(lastOp'.e \in MapValues(entityMap)) )
        => /\ entities' = entities
           /\ queries' = queries
           /\ entityMap' = entityMap
           /\ archetypes' = archetypes
           /\ \A k \in 1 .. Len(fired') : fired'[k].hook # "removed" ]_vars

\* C11: the store-level hooks fire once per create and once per remove,
\* whatever the queries hold: World.add and Sword.createEntity invoke every
\* store-level onEntityAdded callback once, in order, with the entity;
\* World.remove and Sword.removeEntity of a stored entity invoke every
\* store-level onEntityRemoved callback once; addComponent, removeComponent,
\* updateState and updateEntity invoke no store-level callback.
C11_StoreHooksFireOncePerCreateAndRemove ==
    [][ LET e == lastOp'.e
            storeLevel == FiredFor(fired', 0)
        IN  /\ lastOp'.op \in {"add", "createEntity"}
                => storeLevel = OneDispatch(0, "added", onEntityAdded, e)
            /\ ( \/ lastOp'.op = "remove" /\ includes(entities, e)
                 \/ lastOp'.op = "removeEntity" /\ e \in MapValues(entityMap) )
                => storeLevel = OneDispatch(0, "removed", onEntityRemoved, e)
            /\ lastOp'.op \in {"addComponent", "removeComponent", "updateState", "updateEntity"}
                => storeLevel = <<>> ]_vars

\* The list without the first occurrence of f, and unchanged if f is not in it.
WithoutFirst(list, f) ==
    IF \E i \in 1 .. Len(list) : list[i] = f
    THEN LET first == CHOOSE i \in 1 .. Len(list) :
                          list[i] = f /\ \A j \in 1 .. (i - 1) : list[j] # f
         IN  SubSeq(list, 1, first - 1) \o SubSeq(list, first + 1, Len(list))
    ELSE list

RECURSIVE WithoutEach(_, _)
WithoutEach(list, fs) ==
    IF fs = <<>> THEN list ELSE WithoutEach(WithoutFirst(list, Head(fs)), Tail(fs))

\* C14: Sword.stopSystems called with a system that is not registered leaves
\* that system's absence without effect: the systems list afterwards is the
\* list before without the systems of the call that were registered, the
\* others in their order (unchanged if none of the call's systems was
\* registered).
C14_StopOfUnregisteredSystemIsNoOp ==
    [][ \A stopped \in StopLists :
            ( /\ Sword_stopSystems(stopped)
              /\ \E i \in 1 .. Len(stopped) : ~includes(systems, stopped[i]) )
            => systems' = WithoutEach(systems, stopped) ]_vars

\* C15: a tick (Sword.update, World.runSystems) invokes every system that is
\* registered when it starts once, in registration order, each with the dt
\* of the call: the invocations of the tick begin with exactly those.
C15_TickRunsEveryRegisteredSystemOnce ==
    [][ \A dt \in Dts :
            (Sword_update(dt) \/ World_runSystems(dt))
            => /\ Len(ran') >= Len(systems)
               /\ \A i \in 1 .. Len(systems) :
                     ran'[i] = [system |-> systems[i], dt |-> dt] ]_vars

\* The stored entity set: the component map (own keys and values) stored
\* under each identity.
StoredComponents == [id \in DOMAIN entityMap |-> objs[entityMap[id]]]

\* C12: (Sword) deserialize(serialize()) leaves a stored entity set with the
\* same identities and, under each identity, the same component map (same
\* keys, same values) as before the call.
C12_RoundTripPreservesEntities ==
    [][ Sword_deserialize(serialize) => StoredComponents' = StoredComponents ]_vars

\* C13: (Sword) the identity createEntity assigns is the identity of no
\* entity in the store and is none of the identities createEntity assigned
\* before; and when deserialize returns, the allocator is greater than the
\* number of every restored identity.
C13_CreatedIdentityIsFresh ==
    [][ /\ lastOp'.op = "createEntity"
            => LET id == objs'[lastOp'.e]["id"]
               IN  id \notin DOMAIN entityMap /\ id \notin assigned
        /\ lastOp'.op = "deserialize"
            => \A id \in DOMAIN entityMap' : \A n \in 0 .. 9 :
                  toString(n) = id => entityIdCounter' > n ]_vars

\* C13 witness: createEntity has returned in a store that holds an entity
\* restored by deserialize (an identity createEntity never assigned) next to
\* the new one.
C13_Witness ==
    /\ lastOp.op = "createEntity"
    /\ \E id \in DOMAIN entityMap : id \notin assigned /\ id \in {"0", "1"}
    /\ \E id \in DOMAIN entityMap : id \in assigned /\ entityMap[id] = lastOp.e

\* The store now holds the entities of the snapshot: its identities, and
\* under each the components of an entity of the snapshot with that identity.
HoldsSnapshot(data) ==
    /\ DOMAIN entityMap' = { data.entities[i].id : i \in 1 .. Len(data.entities) }
    /\ \A id \in DOMAIN entityMap' : \E i \in 1 .. Len(data.entities) :
          /\ data.entities[i].id = id
          /\ objs'[entityMap'[id]] =
                ObjectAssign([k \in {"id"} |-> id], data.entities[i].components)
    /\ Len(systems') = Len(data.systems)

\* C16: (Sword) a deserialize that fails (throws) leaves the stored entities
\* and the systems list either exactly those of the snapshot or exactly those
\* before the call.
C16_FailedDeserializeIsAllOrNothing ==
    [][ \A data \in Snapshots :
            (Sword_deserialize(data) /\ threw')
            => \/ HoldsSnapshot(data)
               \/ entityMap' = entityMap /\ StoredComponents' = StoredComponents
                  /\ systems' = systems ]_vars

\* C17: (Sword) createEntityFromArchetype with a name generateArchetype never
\* registered returns null without throwing, and creates no entity, leaves
\* the allocator, every query result and the objects as they were and invokes
\* no hook; with a registered name it returns a new stored entity whose
\* components are the template's, overridden by newData.
C17_UnknownTemplateIsAbsentResult ==
    [][ \A name \in TemplateNames, newData \in ObjectLiterals :
            Sword_createEntityFromArchetype(name, newData)
            => IF name \notin DOMAIN archetypeDefinitions
               THEN /\ lastOp'.e = 0
                    /\ ~threw'
                    /\ entityMap' = entityMap
                    /\ objs' = objs
                    /\ entityIdCounter' = entityIdCounter
                    /\ archetypes' = archetypes
                    /\ fired' = <<>>
               ELSE LET e == lastOp'.e
                        template == archetypeDefinitions[name]
                    IN  /\ e \notin DOMAIN objs
                        /\ e \in MapValues(entityMap')
                        /\ \A k \in Names :
                              IF k \in DOMAIN newData
                              THEN k \in DOMAIN objs'[e] /\ objs'[e][k] = newData[k]
                              ELSE IF k \in DOMAIN template
                              THEN k \in DOMAIN objs'[e] /\ objs'[e][k] = template[k]
                              ELSE k \notin DOMAIN objs'[e] ]_vars

\* C17 witness: in a store with a registered template, a stored entity and a
\* query, createEntityFromArchetype of an unregistered name has returned null.
C17_Witness ==
    /\ lastOp.op = "createEntityFromArchetype"
    /\ lastOp.e = 0
    /\ archetypeDefinitions # EmptyMap
    /\ entityMap # EmptyMap
    /\ archetypes # <<>>

\* C18: removeComponent(e, name) on a stored entity e that does not have the
\* component name changes nothing: e's keys and values, every cached list of
\* World and every query result of Sword are as before, and no callback, of a
\* query or of the store, is invoked.
C18_RemoveAbsentComponentIsNoOp ==
    [][ ( /\ lastOp'.op = "removeComponent"
          /\ lastOp'.n = 0
          /\ \/ impl = "World" /\ includes(entities, lastOp'.e)
             \/ impl = "Sword" /\ lastOp'.e \in MapValues(entityMap) )
        => /\ objs' = objs
           /\ queries' = queries
           /\ archetypes' = archetypes
           /\ fired' = <<>> ]_vars

\* C19: no cached list of a query (World) and no entities list of a query
\* result (Sword) holds the same entity twice.
C19_NoDuplicateInAnyCache ==
    /\ \A i \in 1 .. Len(queries) : \A j, k \in 1 .. Len(queries[i].entities) :
          queries[i].entities[j] = queries[i].entities[k] => j = k
    /\ \A i \in 1 .. Len(archetypes) : \A j, k \in 1 .. Len(archetypes[i].entities) :
          archetypes[i].entities[j] = archetypes[i].entities[k] => j = k

\* C20: within one create (World.add, Sword.createEntity) or remove
\* (World.remove, Sword.removeEntity of a stored entity) the store is changed
\* first, the queries are re-evaluated next and the store-level callbacks run
\* last: no callback of a query runs after a store-level callback; and, the
\* store-level callbacks being last, what they see is the state the call
\* returns with: after a create the entity is stored and in the list of every
\* query it matches, after a remove it is in neither the store nor any list.
C20_StoreHooksRunAfterQueryReevaluation ==
    [][ LET e == lastOp'.e
            storeHooksLast ==
                \A j, k \in 1 .. Len(fired') :
                    (fired'[j].q = 0 /\ fired'[k].q # 0) => k < j
        IN  /\ lastOp'.op \in {"add", "createEntity"}
                => /\ storeHooksLast
                   /\ e \in Range(entities') \cup MapValues(entityMap')
                   /\ \A i \in 1 .. Len(queries') :
                         ContainsEvery(queries'[i].params, objs'[e])
                             => includes(queries'[i].entities, e)
                   /\ \A i \in 1 .. Len(archetypes') :
                         ContainsEvery(archetypes'[i].archetype, objs'[e])
                             => includes(archetypes'[i].entities, e)
            /\ ( \/ lastOp'.op = "remove" /\ includes(entities, e)
                 \/ lastOp'.op = "removeEntity" /\ e \in MapValues(entityMap) )
                => /\ storeHooksLast
                   /\ e \notin Range(entities') \cup MapValues(entityMap')
                   /\ \A i \in 1 .. Len(queries') : ~includes(queries'[i].entities, e)
                   /\ \A i \in 1 .. Len(archetypes') : ~includes(archetypes'[i].entities, e) ]_vars

\* C24: (Sword) getEntitiesWithComponents keeps one query result per set of
\* component keys: a call with a key set that already has an entry in the
\* archetypes map adds no entry, so no two entries of the map have the same
\* key set.
C24_OneQueryResultPerKeySet ==
    \A i, j \in 1 .. Len(archetypes) :
        archetypes[i].archetype = archetypes[j].archetype => i = j

\* C23: (Sword) every entry of the entities map is stored under its entity's
\* own id: the entity has an id key whose value is the entry's key, and no
\* object is stored under two keys.
C23_StoredEntityIdEqualsKey ==
    /\ \A key \in DOMAIN entityMap :
          /\ "id" \in DOMAIN objs[entityMap[key]]
          /\ objs[entityMap[key]]["id"] = key
    /\ \A k1, k2 \in DOMAIN entityMap : entityMap[k1] = entityMap[k2] => k1 = k2

\* The last callback a call invoked is one that throws, and no other did.
EndsAtThrower(log) ==
    /\ log # <<>>
    /\ log[Len(log)].cb = Thrower
    /\ \A k \in 1 .. (Len(log) - 1) : log[k].cb # Thrower

\* C21: a hook callback that throws ends the call there and the failure
\* reaches the caller (no callback runs after it, and the call throws); the
\* mutation that preceded the dispatch stays: the added entity is stored, the
\* removed entity is out of the store, the component is set or deleted, the
\* update is applied.
C21_HookFailurePropagatesMutationStays ==
    [][ /\ (\E k \in 1 .. Len(fired') : fired'[k].cb = Thrower)
            => (threw' /\ EndsAtThrower(fired'))
        /\ \A e \in Objs :
            /\ (World_add(e) /\ threw') => includes(entities', e)
            /\ (World_remove(e) /\ threw') => ~includes(entities', e)
            /\ \A data \in ValuesOf("hp") :
                  (World_addComponent(e, "hp", data) /\ threw')
                  => ("hp" \in DOMAIN objs'[e] /\ objs'[e]["hp"] = data)
            /\ (World_removeComponent(e, "hp") /\ threw') => "hp" \notin DOMAIN objs'[e]
            /\ \A updateOrFn \in HpUpdates :
                  /\ (World_updateState(e, updateOrFn) /\ threw')
                     => objs'[e] = ApplyUpdate(objs[e], updateOrFn)
                  /\ (Sword_updateEntity(e, updateOrFn) /\ threw')
                     => objs'[e] = ApplyUpdate(objs[e], updateOrFn)
            /\ (Sword_createEntity(e) /\ threw')
                  => /\ Truthy(objs'[e], "id")
                     /\ objs'[e]["id"] \in DOMAIN entityMap'
                     /\ entityMap'[objs'[e]["id"]] = e
            /\ (Sword_removeEntity(e) /\ threw') => objs[e]["id"] \notin DOMAIN entityMap'
            /\ \A component \in ObjectsOver({"hp"}) :
                  (Sword_addComponent(e, component) /\ threw')
                  => objs'[e] = ObjectAssign(objs[e], component)
            /\ (Sword_removeComponent(e, "hp") /\ threw') => "hp" \notin DOMAIN objs'[e]
      ]_vars

\* A World addComponent gave a stored entity its hp, the entity entered a
\* query whose onEntityAdded holds a throwing callback, and the call threw.
C21_Witness ==
    /\ impl = "World"
    /\ lastOp.op = "addComponent"
    /\ lastOp.n = 1
    /\ threw
    /\ EndsAtThrower(fired)
    /\ fired[Len(fired)].q # 0
    /\ fired[Len(fired)].hook = "added"
    /\ "hp" \in DOMAIN objs[lastOp.e]

\* The cached list holds exactly the stored entities that have every name.
ExactFor(names, cached, stored, os) ==
    Range(cached) = { e \in stored : ContainsEvery(names, os[e]) }

\* C22: the queries are evaluated independently: when a hook callback of one
\* query throws during a mutating call, every other query whose cached list
\* was exact before the call (the stored entities that satisfy it) has an
\* exact cached list when the call returns, the queries registered after the
\* failing one included.
C22_OtherQueriesExactAfterFailure ==
    [][ ( /\ threw'
          /\ EndsAtThrower(fired')
          /\ fired'[Len(fired')].q # 0 )
        => LET failing == fired'[Len(fired')].q
           IN  /\ \A j \in 1 .. Len(queries) :
                     ( /\ j # failing
                       /\ ExactFor(queries[j].params, queries[j].entities,
                                   Range(entities), objs) )
                     => ExactFor(queries'[j].params, queries'[j].entities,
                                 Range(entities'), objs')
               /\ \A j \in 1 .. Len(archetypes) :
                     ( /\ j # failing
                       /\ ExactFor(archetypes[j].archetype, archetypes[j].entities,
                                   MapValues(entityMap), objs) )
                     => ExactFor(archetypes'[j].archetype, archetypes'[j].entities,
                                 MapValues(entityMap'), objs')
      ]_vars

====
